---------------------------- MODULE Spec2Model ----------------------------
(***************************************************************************)
(* A model of pytest-split (src/src/pytest_split/plugin.py).               *)
(*                                                                         *)
(*   Spec          one call of split_tests, one loop iteration per step    *)
(*   SpecProcess   one pytest process: option validation, registration of  *)
(*                 the plugins (which load the durations file), selection  *)
(*                 of a group, the run, the recording of the durations     *)
(*   SpecRecorder  PytestSplitCachePlugin.pytest_sessionfinish on any      *)
(*                 collection of reports                                   *)
(*   SpecRuns      pytest processes one after the other on one file        *)
(*   SpecSelection one process from the registration of the plugins to the *)
(*                 selection of its group, on any durations file           *)
(*   SpecPeers     two processes at the same time on one file              *)
(*                                                                         *)
(* Numbers.  Python computes the durations, in seconds, in floating point;  *)
(* the model computes them exactly, as reduced fractions                   *)
(* <<numerator, denominator>>.                                             *)
(* Lists of groups are indexed from 0 as in the code, the item list from 1 *)
(* (a TLA+ sequence); an item is identified by its position in `items`,    *)
(* its nodeid is the string stored there.                                  *)
(***************************************************************************)
EXTENDS Integers, Sequences, FiniteSets, TLC

VARIABLES
    pc,                     \* where the modelled code stands
    \* ---- split_tests: arguments, locals, return value
    splits, items, cached_durations,
    test_ids, durations, avg_duration_per_test,
    selected, deselected, duration, heap,
    next_item,              \* position of the item the for loop takes next
    item_duration, group_idx,
    groups,
    \* ---- the process: options, exception raised, plugins registered, the
    \* items collected, those left to run and those reported deselected
    opt_group, opt_splits, store_durations, raised, registered, scheduled,
    collected, run_items, deselected_items,
    \* ---- recorder: terminalreporter.stats, test_durations, the cache
    \* plugin's own cached_durations, the durations file and the process's
    \* reads and writes of it
    stats, test_durations, recorder_durations, durations_file, io_log,
    \* ---- processes sharing the durations file: the one whose state the
    \* variables above hold, and the states of the others
    current, suspended

split_vars == <<splits, items, cached_durations, test_ids, durations,
                avg_duration_per_test, selected, deselected, duration, heap,
                next_item, item_duration, group_idx, groups>>
cmdline_vars == <<opt_group, opt_splits, store_durations, raised, registered,
                  scheduled, collected, run_items, deselected_items>>
recorder_vars == <<stats, test_durations, recorder_durations, durations_file,
                   io_log>>
peer_vars == <<current, suspended>>
vars == <<pc, split_vars, cmdline_vars, recorder_vars, peer_vars>>

----------------------------------------------------------------------------
(* Bounds of the model.                                                    *)

MaxItems == 3
MaxSplits == 3
MaxDur == 2
MaxReports == 2
MaxOpt == 4
MaxPairs == 2

\* nodeids of the items that can be collected; the durations file may hold
\* an entry for any of them, collected in this run or not
Ids == {"a", "b", "c"}

----------------------------------------------------------------------------
(* Python values.                                                          *)

None == <<>>
Some(v) == <<v>>
\* bool(x) of an Optional[int]
Truthy(x) == x # None /\ x[1] # 0

Abs(n) == IF n < 0 THEN 0 - n ELSE n

RECURSIVE GCD(_, _)
GCD(m, n) == IF n = 0 THEN m ELSE GCD(n, m % n)

\* the number n/d, d > 0, in lowest terms
Rat(n, d) == LET g == GCD(Abs(n), d) IN <<n \div g, d \div g>>
Zero == Rat(0, 1)
RAdd(x, y) == Rat(x[1] * y[2] + y[1] * x[2], x[2] * y[2])
RLess(x, y) == x[1] * y[2] < y[1] * x[2]
RLeq(x, y) == x[1] * y[2] <= y[1] * x[2]
\* x / n for an integer n > 0
RDiv(x, n) == Rat(x[1], x[2] * n)

Range(s) == {s[i] : i \in DOMAIN s}

\* sum(d.values())
RECURSIVE SumValues(_)
SumValues(d) ==
    IF DOMAIN d = {} THEN Zero
    ELSE LET k == CHOOSE x \in DOMAIN d : TRUE
         IN RAdd(d[k], SumValues([x \in DOMAIN d \ {k} |-> d[x]]))

\* all sequences over S of length at most n
SeqsUpTo(S, n) == UNION {[1..k -> S] : k \in 0..n}

\* all dicts with keys in K and values in V
Dicts(K, V) == UNION {[D -> V] : D \in SUBSET K}

\* the durations, in seconds, a durations file may hold for an item
DurationValues == {Rat(v, 1) : v \in 0..MaxDur}

----------------------------------------------------------------------------
(* heapq, on a list of (summed_durations, group_index) tuples.  Positions   *)
(* are those of the Python list (from 0); heap[pos + 1] is the entry.      *)

\* Python's tuple order: the first components decide unless they are equal
\* (faulty variant, for C4: the group index is not compared)
TupleLessNoTieBreak(x, y) == RLess(x[1], y[1])
TupleLess(x, y) == RLess(x[1], y[1]) \/ (x[1] = y[1] /\ x[2] < y[2])

RECURSIVE SiftDownLoop(_, _, _, _)
SiftDownLoop(h, startpos, pos, newitem) ==
    IF pos > startpos
    THEN LET parentpos == (pos - 1) \div 2
             parent == h[parentpos + 1]
         IN IF TupleLess(newitem, parent)
            THEN SiftDownLoop([h EXCEPT ![pos + 1] = parent], startpos,
                              parentpos, newitem)
            ELSE [h EXCEPT ![pos + 1] = newitem]
    ELSE [h EXCEPT ![pos + 1] = newitem]

siftdown(h, startpos, pos) == SiftDownLoop(h, startpos, pos, h[pos + 1])

RECURSIVE SiftUpLoop(_, _, _, _)
SiftUpLoop(h, startpos, pos, newitem) ==
    LET endpos == Len(h)
        leftpos == 2 * pos + 1
        rightpos == leftpos + 1
        childpos == IF rightpos < endpos
                       /\ ~ TupleLess(h[leftpos + 1], h[rightpos + 1])
                    THEN rightpos ELSE leftpos
    IN IF leftpos < endpos
       THEN SiftUpLoop([h EXCEPT ![pos + 1] = h[childpos + 1]], startpos,
                       childpos, newitem)
       ELSE siftdown([h EXCEPT ![pos + 1] = newitem], startpos, pos)

siftup(h, pos) == SiftUpLoop(h, pos, pos, h[pos + 1])

RECURSIVE HeapifyFrom(_, _)
HeapifyFrom(h, i) == IF i < 0 THEN h ELSE HeapifyFrom(siftup(h, i), i - 1)

heapify(h) == HeapifyFrom(h, (Len(h) \div 2) - 1)

\* heappush(heap, item): the heap afterwards
\* (faulty variant, for C3: the new entry is not sifted into place)
heappushNoSift(h, item) == Append(h, item)
heappush(h, item) == siftdown(Append(h, item), 0, Len(h))

\* heappop(heap): the item returned, and the heap afterwards
heappopItem(h) == h[1]
heappopRest(h) ==
    LET lastelt == h[Len(h)]
        rest == SubSeq(h, 1, Len(h) - 1)
    IN IF rest # <<>> THEN siftup([rest EXCEPT ![1] = lastelt], 0) ELSE rest

----------------------------------------------------------------------------
(* split_tests                                                             *)

GroupIdx == 0 .. (splits - 1)

\* line 171: the durations of the items passed in
\* (faulty variant, for C6: stale entries are kept)
RestrictAll(d, ids) == d
Restrict(d, ids) == [k \in {x \in DOMAIN d : x \in Range(ids)} |-> d[k]]

\* lines 173-178
\* (faulty variant, for C14: the average of no durations is 0)
AverageOrZero(d) ==
    IF DOMAIN d # {} THEN RDiv(SumValues(d), Cardinality(DOMAIN d))
    ELSE Zero
Average(d) ==
    IF DOMAIN d # {} THEN RDiv(SumValues(d), Cardinality(DOMAIN d))
    ELSE Rat(1, 1)

\* line 188: durations.get(item.nodeid, avg_duration_per_test)
\* (faulty variant, for C5: the item's own entry is not used)
GetAlwaysAverage(d, nodeid, default) == default
Get(d, nodeid, default) ==
    IF nodeid \in DOMAIN d THEN d[nodeid] ELSE default

\* line 195
\* (faulty variant, for C1: the item is appended to every group)
StoreSelectedAll(sel, g, item) == [i \in DOMAIN sel |-> Append(sel[i], item)]
StoreSelected(sel, g, item) == [sel EXCEPT ![g] = Append(@, item)]

\* line 196
\* (faulty variant, for C7: the total is replaced, not added to)
StoreDurationItemOnly(dur, g, new, item_dur) == [dur EXCEPT ![g] = item_dur]
StoreDuration(dur, g, new, item_dur) == [dur EXCEPT ![g] = new]

\* lines 197-199
\* (faulty variant, for C2: the receiving group is not left out)
StoreDeselectedAll(desel, g, item) ==
    [i \in DOMAIN desel |-> Append(desel[i], item)]
StoreDeselected(desel, g, item) ==
    [i \in DOMAIN desel |-> IF i # g THEN Append(desel[i], item) ELSE desel[i]]

\* line 204
test_group(sel, desel, dur) ==
    [selected |-> sel, deselected |-> desel, duration |-> dur]

\* lines 170-186: everything before the loop
SplitStart ==
    /\ pc = "split_tests"
    /\ test_ids' = [i \in DOMAIN items |-> items[i]]
    /\ durations' = Restrict(cached_durations, test_ids')
    /\ avg_duration_per_test' = Average(durations')
    /\ selected' = [i \in GroupIdx |-> <<>>]
    /\ deselected' = [i \in GroupIdx |-> <<>>]
    /\ duration' = [i \in GroupIdx |-> Zero]
    /\ heap' = heapify([i \in 1..splits |-> <<Zero, i - 1>>])
    /\ next_item' = 1
    /\ pc' = "loop"
    /\ UNCHANGED <<splits, items, cached_durations, item_duration, group_idx,
                   groups, cmdline_vars, recorder_vars,
                   peer_vars>>

\* lines 187-202: one iteration of the loop
SplitStep ==
    /\ pc = "loop"
    /\ next_item <= Len(items)
    /\ LET item == next_item
           popped == heappopItem(heap)
           summed_durations == popped[1]
           new_group_durations == RAdd(summed_durations, item_duration')
       IN /\ item_duration' = Get(durations, items[item], avg_duration_per_test)
          /\ group_idx' = popped[2]
          /\ selected' = StoreSelected(selected, group_idx', item)
          /\ duration' = StoreDuration(duration, group_idx',
                                       new_group_durations, item_duration')
          /\ deselected' = StoreDeselected(deselected, group_idx', item)
          /\ heap' = heappush(heappopRest(heap),
                              <<new_group_durations, group_idx'>>)
    /\ next_item' = next_item + 1
    /\ UNCHANGED <<pc, splits, items, cached_durations, test_ids, durations,
                   avg_duration_per_test, groups, cmdline_vars, recorder_vars,
                   peer_vars>>

\* line 204
SplitReturn ==
    /\ pc = "loop"
    /\ next_item > Len(items)
    /\ groups' = [i \in GroupIdx |->
                    test_group(selected[i], deselected[i], duration[i])]
    /\ pc' = "returned"
    /\ UNCHANGED <<splits, items, cached_durations, test_ids, durations,
                   avg_duration_per_test, selected, deselected, duration,
                   heap, next_item, item_duration, group_idx, cmdline_vars,
                   recorder_vars,
                   peer_vars>>

\* the variables before the code that sets them has run
SplitLocalsUnset ==
    /\ test_ids = <<>> /\ durations = <<>> /\ avg_duration_per_test = Zero
    /\ selected = <<>> /\ deselected = <<>> /\ duration = <<>> /\ heap = <<>>
    /\ next_item = 1 /\ item_duration = Zero /\ group_idx = 0
    /\ groups = <<>>
SplitIdle ==
    /\ splits = 1 /\ items = <<>> /\ cached_durations = <<>>
    /\ SplitLocalsUnset
CmdlineIdle ==
    /\ opt_group = None /\ opt_splits = None /\ store_durations = FALSE
    /\ raised = None /\ registered = {} /\ scheduled = FALSE
    /\ collected = <<>> /\ run_items = <<>> /\ deselected_items = <<>>
RecorderIdle ==
    /\ stats = <<>> /\ test_durations = <<>> /\ recorder_durations = <<>>
    /\ durations_file = [kind |-> "missing", pairs |-> <<>>]
    /\ io_log = <<>>
\* a process on its own
PeersIdle == current = "p" /\ suspended = <<>>

\* the example of the specification's section 8
ExampleItems == <<"a", "b", "c", "d", "e">>
ExampleDurations ==
    [k \in Range(ExampleItems) |->
        CASE k = "a" -> Rat(5, 1) [] k = "b" -> Rat(4, 1) [] k = "c" -> Rat(3, 1)
          [] k = "d" -> Rat(2, 1) [] OTHER -> Rat(1, 1)]

\* a call of split_tests: any items, any group count >= 1, any durations
SplitInit ==
    /\ pc = "split_tests"
    /\ \/ /\ splits \in 1..MaxSplits
          /\ items \in SeqsUpTo(Ids, MaxItems)
          /\ cached_durations \in Dicts(Ids, DurationValues)
       \/ /\ splits \in 1..MaxSplits
          /\ items \in {SubSeq(ExampleItems, 1, n) : n \in 4..5}
          /\ cached_durations = ExampleDurations
    /\ SplitLocalsUnset
    /\ CmdlineIdle /\ RecorderIdle /\ PeersIdle

Init == SplitInit
Next == SplitStart \/ SplitStep \/ SplitReturn
Spec == Init /\ [][Next]_vars

----------------------------------------------------------------------------
(* The durations file.  Its content is missing, text that is not JSON, a   *)
(* JSON object or (the legacy form) a JSON array of [name, duration]       *)
(* pairs; `pairs` are the members in the order they stand in the file.     *)

FileMissing == [kind |-> "missing", pairs |-> <<>>]
FileGarbage == [kind |-> "garbage", pairs |-> <<>>]
FileObject(pairs) == [kind |-> "object", pairs |-> pairs]
FileArray(pairs) == [kind |-> "array", pairs |-> pairs]

\* d[k] = v
SetItem(d, k, v) == [x \in DOMAIN d \cup {k} |-> IF x = k THEN v ELSE d[x]]

\* the dict built from pairs in order: a later pair replaces an earlier one
\* (faulty variant, for C12: the first pair of a name is kept)
RECURSIVE FromPairsFirstWins(_)
FromPairsFirstWins(pairs) ==
    IF pairs = <<>> THEN <<>>
    ELSE LET first == pairs[1]
         IN SetItem(FromPairsFirstWins(SubSeq(pairs, 2, Len(pairs))),
                    first[1], first[2])
RECURSIVE FromPairs(_)
FromPairs(pairs) ==
    IF pairs = <<>> THEN <<>>
    ELSE LET last == pairs[Len(pairs)]
         IN SetItem(FromPairs(SubSeq(pairs, 1, Len(pairs) - 1)),
                    last[1], last[2])

\* the items of a dict, in some order
RECURSIVE ItemsOf(_)
ItemsOf(d) ==
    IF DOMAIN d = {} THEN <<>>
    ELSE LET k == CHOOSE x \in DOMAIN d : TRUE
         IN <<<<k, d[k]>>>> \o ItemsOf([x \in DOMAIN d \ {k} |-> d[x]])

\* line 111: json.loads(f.read()) of a file that holds JSON
json_loads(file) ==
    IF file.kind = "object"
    THEN [type |-> "dict", value |-> FromPairs(file.pairs)]
    ELSE [type |-> "list", value |-> file.pairs]

\* line 245: json.dump(self.cached_durations, f)
json_dump(d) == FileObject(ItemsOf(d))

\* lines 109-119, Base.__init__: the exception raised, or the mapping loaded
\* (faulty variant, for C13: a file that does not parse counts as empty)
BaseInitRaisesNothing(file) == None
BaseInitRaises(file) ==
    IF file.kind = "garbage" THEN <<"JSONDecodeError", "">> ELSE None
BaseInit(file) ==
    IF file.kind = "missing" THEN <<>>
    ELSE LET loaded == json_loads(file)
         IN IF loaded.type = "list" THEN FromPairs(loaded.value)
            ELSE loaded.value

----------------------------------------------------------------------------
(* pytest_cmdline_main: the exception it raises, None when it returns.     *)

\* x < n of an Optional[int] and an int raises TypeError for None
LessRaises(x) == x = None

UsageError(msg) == <<"UsageError", msg>>
TypeError == <<"TypeError", "< not supported between NoneType and int">>

\* lines 67-85
Validate(group, opt) ==
    IF opt = None /\ group = None THEN None
    ELSE IF Truthy(opt) /\ group = None
    THEN UsageError("argument --group is required")
    ELSE IF Truthy(group) /\ opt = None
    THEN UsageError("argument --splits is required")
    ELSE IF LessRaises(opt) THEN TypeError
    ELSE IF opt[1] < 1
    THEN UsageError("argument --splits must be >= 1")
    ELSE IF LessRaises(group) THEN TypeError
    ELSE IF group[1] < 1 \/ group[1] > opt[1]
    THEN UsageError("argument --group must be >= 1 and <= splits")
    ELSE None

\* lines 62-85; pytest calls it first (tryfirst), an exception ends the process
pytest_cmdline_main ==
    /\ pc = "cmdline_main"
    /\ raised' = Validate(opt_group, opt_splits)
    /\ pc' = IF raised' = None THEN "configure" ELSE "exit"
    /\ UNCHANGED <<split_vars, opt_group, opt_splits, store_durations,
                   registered, scheduled, collected, run_items,
                   deselected_items, recorder_vars,
                   peer_vars>>

\* lines 88-96, with the constructors of the plugins, lines 100-133: each
\* constructor reads the durations file
pytest_configure ==
    /\ pc = "configure"
    /\ LET split == Truthy(opt_splits) /\ Truthy(opt_group)
           cache == store_durations
           reads == (IF split THEN <<"read">> ELSE <<>>)
                    \o (IF cache THEN <<"read">> ELSE <<>>)
           error == IF split \/ cache THEN BaseInitRaises(durations_file)
                    ELSE None
       IN IF error # None
          THEN /\ raised' = error
               /\ io_log' = Append(io_log, "read")
               /\ pc' = "exit"
               /\ UNCHANGED <<cached_durations, recorder_durations, registered>>
          ELSE /\ cached_durations' = IF split THEN BaseInit(durations_file)
                                      ELSE cached_durations
               /\ recorder_durations' = IF cache THEN BaseInit(durations_file)
                                        ELSE recorder_durations
               /\ registered' = (IF split THEN {"pytestsplitplugin"} ELSE {})
                                \cup (IF cache THEN {"pytestsplitcacheplugin"}
                                      ELSE {})
               /\ io_log' = io_log \o reads
               /\ pc' = "collection"
               /\ UNCHANGED raised
    /\ UNCHANGED <<splits, items, test_ids, durations, avg_duration_per_test,
                   selected, deselected, duration, heap, next_item,
                   item_duration, group_idx, groups,
                   opt_group, opt_splits, store_durations, scheduled,
                   collected, run_items, deselected_items,
                   stats, test_durations, durations_file, peer_vars>>

\* lines 136-143: the hook, up to its call of split_tests
pytest_collection_modifyitems ==
    /\ pc = "collection"
    /\ "pytestsplitplugin" \in registered
    /\ splits' = opt_splits[1]
    /\ items' = collected
    /\ scheduled' = TRUE
    /\ pc' = "split_tests"
    /\ UNCHANGED <<cached_durations, test_ids, durations,
                   avg_duration_per_test, selected, deselected, duration,
                   heap, next_item, item_duration, group_idx, groups,
                   opt_group, opt_splits, store_durations, raised, registered,
                   collected, run_items, deselected_items, recorder_vars,
                   peer_vars>>

\* line 144: groups[group_idx - 1]
\* (faulty variant, for C18: the 1-based index is used as it is)
GroupOfIndexUnshifted(gs, g) == gs[g % Cardinality(DOMAIN gs)]
GroupOfIndex(gs, g) == gs[g - 1]

\* lines 144-154: the hook, from the return of split_tests
SelectGroup ==
    /\ pc = "returned"
    /\ scheduled
    /\ LET group == GroupOfIndex(groups, opt_group[1])
       IN /\ run_items' = group.selected
          /\ deselected_items' = group.deselected
    /\ pc' = "runtest"
    /\ UNCHANGED <<split_vars, opt_group, opt_splits, store_durations, raised,
                   registered, scheduled, collected, recorder_vars,
                   peer_vars>>

\* without the split plugin every collected item runs
NoSelection ==
    /\ pc = "collection"
    /\ "pytestsplitplugin" \notin registered
    /\ run_items' = [i \in DOMAIN collected |-> i]
    /\ pc' = "runtest"
    /\ UNCHANGED <<split_vars, opt_group, opt_splits, store_durations, raised,
                   registered, scheduled, collected, deselected_items,
                   recorder_vars,
                   peer_vars>>

----------------------------------------------------------------------------
(* The recorder.  A report of terminalreporter.stats: whether it is a      *)
(* TestReport, its nodeid, its phase and its duration in seconds.          *)

STORE_DURATIONS_SETUP_AND_TEARDOWN_THRESHOLD == 60 * 10

Report(is_test_report, nodeid, when, dur) ==
    [test_report |-> is_test_report, nodeid |-> nodeid, when |-> when,
     duration |-> dur]

\* line 225
SkipNegative(r) == RLess(r.duration, Zero)

\* lines 227-230
\* (faulty variant, for C10: a report of exactly the threshold is dropped)
SkipAtThreshold(r) ==
    /\ r.when \in {"teardown", "setup"}
    /\ RLeq(Rat(STORE_DURATIONS_SETUP_AND_TEARDOWN_THRESHOLD, 1), r.duration)
SkipSetupTeardown(r) ==
    /\ r.when \in {"teardown", "setup"}
    /\ RLess(Rat(STORE_DURATIONS_SETUP_AND_TEARDOWN_THRESHOLD, 1), r.duration)

\* lines 235-237
AddDuration(td, r) ==
    SetItem(td, r.nodeid,
            RAdd(IF r.nodeid \in DOMAIN td THEN td[r.nodeid] ELSE Zero,
                 r.duration))

\* lines 218-237: test_durations after the reports from position i on
RECURSIVE RecordFrom(_, _, _)
RecordFrom(reports, i, td) ==
    IF i > Len(reports) THEN td
    ELSE LET r == reports[i]
         IN IF ~ r.test_report THEN RecordFrom(reports, i + 1, td)
            ELSE IF SkipNegative(r) THEN RecordFrom(reports, i + 1, td)
            ELSE IF SkipSetupTeardown(r) THEN RecordFrom(reports, i + 1, td)
            ELSE RecordFrom(reports, i + 1, AddDuration(td, r))

\* lines 240-241
\* (faulty variant, for C19: the totals of this run replace the mapping)
UpdateReplacing(cached, td) == td
\* (faulty variant, for C11: the new total is added to the stored value)
RECURSIVE UpdateAdding(_, _)
UpdateAdding(cached, td) ==
    IF DOMAIN td = {} THEN cached
    ELSE LET k == CHOOSE x \in DOMAIN td : TRUE
         IN UpdateAdding(SetItem(cached, k,
                                 RAdd(IF k \in DOMAIN cached THEN cached[k]
                                      ELSE Zero, td[k])),
                         [x \in DOMAIN td \ {k} |-> td[x]])
RECURSIVE Update(_, _)
Update(cached, td) ==
    IF DOMAIN td = {} THEN cached
    ELSE LET k == CHOOSE x \in DOMAIN td : TRUE
         IN Update(SetItem(cached, k, td[k]),
                   [x \in DOMAIN td \ {k} |-> td[x]])

\* lines 212-250
\* (faulty variant, for C16: the file is read again before it is written)
pytest_sessionfinishReload ==
    /\ pc = "sessionfinish"
    /\ "pytestsplitcacheplugin" \in registered
    /\ test_durations' = RecordFrom(stats, 1, <<>>)
    /\ recorder_durations' = Update(BaseInit(durations_file), test_durations')
    /\ durations_file' = json_dump(recorder_durations')
    /\ io_log' = Append(io_log, "write")
    /\ pc' = "exit"
    /\ UNCHANGED <<split_vars, cmdline_vars, stats, peer_vars>>
pytest_sessionfinish ==
    /\ pc = "sessionfinish"
    /\ "pytestsplitcacheplugin" \in registered
    /\ test_durations' = RecordFrom(stats, 1, <<>>)
    /\ recorder_durations' = Update(recorder_durations, test_durations')
    /\ durations_file' = json_dump(recorder_durations')
    /\ io_log' = Append(io_log, "write")
    /\ pc' = "exit"
    /\ UNCHANGED <<split_vars, cmdline_vars, stats, peer_vars>>

\* pytest runs the items left and reports the three phases of each, every
\* phase of item i taking ds[i] seconds (-0.01 s: a clock set back during
\* the phase); then the session finishes
PhaseOrder == <<"setup", "call", "teardown">>
RunStats(D) ==
    {[j \in 1..(3 * Len(run_items)) |->
        Report(TRUE, collected[run_items[(j + 2) \div 3]],
               PhaseOrder[((j - 1) % 3) + 1], ds[(j + 2) \div 3])] :
     ds \in [1..Len(run_items) -> D]}
RunTests ==
    /\ pc = "runtest"
    /\ stats' \in RunStats({Rat(0 - 1, 100), Rat(1, 1), Rat(3, 1)})
    /\ pc' = IF "pytestsplitcacheplugin" \in registered THEN "sessionfinish"
             ELSE "exit"
    /\ UNCHANGED <<split_vars, cmdline_vars, test_durations,
                   recorder_durations, durations_file, io_log, peer_vars>>

----------------------------------------------------------------------------
(* One pytest process.                                                     *)

OptValues == {None} \cup {Some(v) : v \in (0 - 2)..MaxOpt}

ProcessFiles ==
    {FileMissing, FileGarbage,
     FileObject(<<<<"a", Rat(2, 1)>>, <<"z", Rat(1, 1)>>>>),
     FileArray(<<<<"a", Rat(1, 1)>>, <<"a", Rat(2, 1)>>>>)}

ProcessInit ==
    /\ pc = "cmdline_main"
    /\ opt_group \in OptValues
    /\ opt_splits \in OptValues
    /\ store_durations \in BOOLEAN
    /\ durations_file \in ProcessFiles
    /\ collected \in {<<"a", "b">>}
    /\ raised = None /\ registered = {} /\ scheduled = FALSE
    /\ run_items = <<>> /\ deselected_items = <<>>
    /\ stats = <<>> /\ test_durations = <<>> /\ recorder_durations = <<>>
    /\ io_log = <<>>
    /\ SplitIdle /\ PeersIdle

ProcessNext ==
    \/ pytest_cmdline_main
    \/ pytest_configure
    \/ pytest_collection_modifyitems
    \/ SplitStart
    \/ SplitStep
    \/ SplitReturn
    \/ SelectGroup
    \/ NoSelection
    \/ RunTests
    \/ pytest_sessionfinish

SpecProcess == ProcessInit /\ [][ProcessNext]_vars

----------------------------------------------------------------------------
(* Runs of pytest one after the other on the same durations file: when a   *)
(* process has ended, another one starts, with any options, and finds the  *)
(* file as the one before left it.                                         *)

NewProcess ==
    /\ pc = "exit"
    /\ pc' = "cmdline_main"
    /\ opt_group' \in OptValues
    /\ opt_splits' \in OptValues
    /\ store_durations' \in BOOLEAN
    /\ raised' = None /\ registered' = {} /\ scheduled' = FALSE
    /\ run_items' = <<>> /\ deselected_items' = <<>>
    /\ stats' = <<>> /\ test_durations' = <<>> /\ recorder_durations' = <<>>
    /\ io_log' = <<>>
    /\ splits' = 1 /\ items' = <<>> /\ cached_durations' = <<>>
    /\ test_ids' = <<>> /\ durations' = <<>> /\ avg_duration_per_test' = Zero
    /\ selected' = <<>> /\ deselected' = <<>> /\ duration' = <<>>
    /\ heap' = <<>> /\ next_item' = 1 /\ item_duration' = Zero
    /\ group_idx' = 0 /\ groups' = <<>>
    /\ UNCHANGED <<collected, durations_file, peer_vars>>

RunsNext == ProcessNext \/ NewProcess

SpecRuns == ProcessInit /\ [][RunsNext]_vars

----------------------------------------------------------------------------
(* A process from the registration of the plugins to the selection of the  *)
(* group, with options that passed validation, on any durations file and   *)
(* any number of collected items.                                          *)

\* the members a durations file may hold
FilePairs == {<<id, Rat(v, 1)>> : id \in {"a", "b"}, v \in 1..2}

SelectionFiles ==
    {FileMissing, FileGarbage}
    \cup {FileObject(ps) : ps \in SeqsUpTo(FilePairs, MaxPairs)}
    \cup {FileArray(ps) : ps \in SeqsUpTo(FilePairs, MaxPairs)}

\* (group, splits) as pytest_cmdline_main lets them pass
ValidOptions ==
    {o \in OptValues \X OptValues :
        /\ Validate(o[1], o[2]) = None
        /\ Truthy(o[2]) => o[2][1] <= MaxSplits}

SelectionInit ==
    /\ pc = "configure"
    /\ \E o \in ValidOptions : opt_group = o[1] /\ opt_splits = o[2]
    /\ store_durations \in BOOLEAN
    /\ durations_file \in SelectionFiles
    /\ collected \in {SubSeq(ExampleItems, 1, n) : n \in 0..MaxItems}
    /\ raised = None /\ registered = {} /\ scheduled = FALSE
    /\ run_items = <<>> /\ deselected_items = <<>>
    /\ stats = <<>> /\ test_durations = <<>> /\ recorder_durations = <<>>
    /\ io_log = <<>>
    /\ SplitIdle /\ PeersIdle

SelectionNext ==
    \/ pytest_configure
    \/ pytest_collection_modifyitems
    \/ SplitStart
    \/ SplitStep
    \/ SplitReturn
    \/ SelectGroup
    \/ NoSelection

SpecSelection == SelectionInit /\ [][SelectionNext]_vars

----------------------------------------------------------------------------
(* Processes of pytest running at the same time on the same durations file *)
(* and the same collected items, as the groups of one split do.  The       *)
(* variables of the process hold the state of the process `current`; every *)
(* hook is one step, and between two steps the operating system may let    *)
(* another process run.                                                    *)

Peers == {"p", "q"}

\* the state of the current process: all but the shared file and the items
Context ==
    [pc |-> pc,
     splits |-> splits,
     items |-> items,
     cached_durations |-> cached_durations,
     test_ids |-> test_ids,
     durations |-> durations,
     avg_duration_per_test |-> avg_duration_per_test,
     selected |-> selected,
     deselected |-> deselected,
     duration |-> duration,
     heap |-> heap,
     next_item |-> next_item,
     item_duration |-> item_duration,
     group_idx |-> group_idx,
     groups |-> groups,
     opt_group |-> opt_group,
     opt_splits |-> opt_splits,
     store_durations |-> store_durations,
     raised |-> raised,
     registered |-> registered,
     scheduled |-> scheduled,
     run_items |-> run_items,
     deselected_items |-> deselected_items,
     stats |-> stats,
     test_durations |-> test_durations,
     recorder_durations |-> recorder_durations,
     io_log |-> io_log]

\* the state of a process before pytest_configure, with the options o
StartContext(o) ==
    [pc |-> "configure",
     splits |-> 1,
     items |-> <<>>,
     cached_durations |-> <<>>,
     test_ids |-> <<>>,
     durations |-> <<>>,
     avg_duration_per_test |-> Zero,
     selected |-> <<>>,
     deselected |-> <<>>,
     duration |-> <<>>,
     heap |-> <<>>,
     next_item |-> 1,
     item_duration |-> Zero,
     group_idx |-> 0,
     groups |-> <<>>,
     opt_group |-> o[1],
     opt_splits |-> o[2],
     store_durations |-> o[3],
     raised |-> None,
     registered |-> {},
     scheduled |-> FALSE,
     run_items |-> <<>>,
     deselected_items |-> <<>>,
     stats |-> <<>>,
     test_durations |-> <<>>,
     recorder_durations |-> <<>>,
     io_log |-> <<>>]

\* the process q gets to run
Switch(q) ==
    /\ q \in DOMAIN suspended
    /\ current' = q
    /\ suspended' = [r \in (DOMAIN suspended \ {q}) \cup {current} |->
                       IF r = current THEN Context ELSE suspended[r]]
    /\ pc' = suspended[q].pc
    /\ splits' = suspended[q].splits
    /\ items' = suspended[q].items
    /\ cached_durations' = suspended[q].cached_durations
    /\ test_ids' = suspended[q].test_ids
    /\ durations' = suspended[q].durations
    /\ avg_duration_per_test' = suspended[q].avg_duration_per_test
    /\ selected' = suspended[q].selected
    /\ deselected' = suspended[q].deselected
    /\ duration' = suspended[q].duration
    /\ heap' = suspended[q].heap
    /\ next_item' = suspended[q].next_item
    /\ item_duration' = suspended[q].item_duration
    /\ group_idx' = suspended[q].group_idx
    /\ groups' = suspended[q].groups
    /\ opt_group' = suspended[q].opt_group
    /\ opt_splits' = suspended[q].opt_splits
    /\ store_durations' = suspended[q].store_durations
    /\ raised' = suspended[q].raised
    /\ registered' = suspended[q].registered
    /\ scheduled' = suspended[q].scheduled
    /\ run_items' = suspended[q].run_items
    /\ deselected_items' = suspended[q].deselected_items
    /\ stats' = suspended[q].stats
    /\ test_durations' = suspended[q].test_durations
    /\ recorder_durations' = suspended[q].recorder_durations
    /\ io_log' = suspended[q].io_log
    /\ UNCHANGED <<collected, durations_file>>

\* (group, splits, store_durations): one group of a split into two, with or
\* without the recording, or the recording alone
PeerOptions ==
    {<<Some(g), Some(2), st>> : g \in 1..2, st \in BOOLEAN}
    \cup {<<None, None, TRUE>>}

PeerFiles == {FileMissing, FileObject(<<<<"z", Rat(1, 1)>>>>)}

PeersInit ==
    /\ collected = <<"a", "b">>
    /\ durations_file \in PeerFiles
    /\ current = "p"
    /\ suspended \in [Peers \ {"p"} -> {StartContext(o) : o \in PeerOptions}]
    /\ pc = "configure"
    /\ \E o \in PeerOptions :
          opt_group = o[1] /\ opt_splits = o[2] /\ store_durations = o[3]
    /\ raised = None /\ registered = {} /\ scheduled = FALSE
    /\ run_items = <<>> /\ deselected_items = <<>>
    /\ stats = <<>> /\ test_durations = <<>> /\ recorder_durations = <<>>
    /\ io_log = <<>>
    /\ SplitIdle

PeersNext ==
    \/ pytest_configure
    \/ pytest_collection_modifyitems
    \/ SplitStart
    \/ SplitStep
    \/ SplitReturn
    \/ SelectGroup
    \/ NoSelection
    \/ RunTests
    \/ pytest_sessionfinish
    \/ \E q \in Peers : Switch(q)

SpecPeers == PeersInit /\ [][PeersNext]_vars

----------------------------------------------------------------------------
(* pytest_sessionfinish on any reports.                                    *)

Phases == {"setup", "call", "teardown"}

\* -0.01 s, and the durations around the threshold
ReportDurations ==
    {Rat(0 - 1, 100), Zero, Rat(599, 1), Rat(600, 1), Rat(601, 1)}

Reports ==
    {Report(TRUE, id, when, d) : id \in {"a", "b"}, when \in Phases,
                                 d \in ReportDurations}
    \cup {Report(FALSE, "a", "collect", Rat(599, 1))}

RecorderInit ==
    /\ pc = "sessionfinish"
    /\ registered = {"pytestsplitcacheplugin"}
    /\ store_durations = TRUE
    /\ stats \in SeqsUpTo(Reports, MaxReports)
    /\ recorder_durations \in Dicts({"a", "z"}, {Rat(5, 1)})
    /\ durations_file = json_dump(recorder_durations)
    /\ io_log = <<"read">>
    /\ test_durations = <<>>
    /\ opt_group = None /\ opt_splits = None
    /\ raised = None /\ scheduled = FALSE
    /\ collected = <<>> /\ run_items = <<>> /\ deselected_items = <<>>
    /\ SplitIdle /\ PeersIdle

RecorderNext == pytest_sessionfinish

SpecRecorder == RecorderInit /\ [][RecorderNext]_vars

----------------------------------------------------------------------------
(* What the properties of split_tests are stated in.                       *)

Started == pc \in {"loop", "returned"}
\* the number of items the loop has handled
Processed == next_item - 1

\* the lists of group g: the locals during the loop, the result after it
Sel(g) == IF pc = "returned" THEN groups[g].selected ELSE selected[g]
Desel(g) == IF pc = "returned" THEN groups[g].deselected ELSE deselected[g]
Dur(g) == IF pc = "returned" THEN groups[g].duration ELSE duration[g]

Ascending(s) == \A i, j \in DOMAIN s : i < j => s[i] < s[j]
Occurrences(s, x) == Cardinality({i \in DOMAIN s : s[i] = x})

RECURSIVE SumOver(_, _)
SumOver(S, f) ==
    IF S = {} THEN 0
    ELSE LET x == CHOOSE y \in S : TRUE IN f[x] + SumOver(S \ {x}, f)

\* the mapping entries whose key is the identifier of an input item
Overlap == {k \in DOMAIN cached_durations : \E p \in DOMAIN items : items[p] = k}
Stale == DOMAIN cached_durations \ Overlap
RECURSIVE Total(_, _)
Total(S, f) ==
    IF S = {} THEN Zero
    ELSE LET x == CHOOSE y \in S : TRUE IN RAdd(f[x], Total(S \ {x}, f))
Fallback ==
    IF Overlap = {} THEN Rat(1, 1)
    ELSE RDiv(Total(Overlap, cached_durations), Cardinality(Overlap))
\* the effective duration of the item at position p
Effective(p) ==
    IF items[p] \in DOMAIN cached_durations
    THEN cached_durations[items[p]]
    ELSE Fallback

\* the sum of the effective durations of the items at the positions in P
RECURSIVE EffectiveSum(_)
EffectiveSum(P) ==
    IF P = {} THEN Zero
    ELSE LET p == CHOOSE q \in P : TRUE
         IN RAdd(Effective(p), EffectiveSum(P \ {p}))

\* the group that holds the item at position k
GroupOf(k) == CHOOSE g \in GroupIdx : k \in Range(Sel(g))
\* the running total of group g at the moment item k is assigned
TotalBefore(g, k) == EffectiveSum({p \in Range(Sel(g)) : p < k})
\* the groups with the minimum running total at that moment
MinGroups(k) ==
    {g \in GroupIdx :
        \A h \in GroupIdx : RLeq(TotalBefore(g, k), TotalBefore(h, k))}

----------------------------------------------------------------------------
(* C1.  split_tests returns exactly `splits` groups, and every item of the *)
(* input is in the selected list of exactly one group, once; during the    *)
(* loop the same holds of the items handled so far, and no other item is   *)
(* in any list.                                                            *)
C1_Partition ==
    Started =>
        /\ DOMAIN selected = GroupIdx
        /\ pc = "returned" =>
              DOMAIN groups = GroupIdx /\ Cardinality(DOMAIN groups) = splits
        /\ \A p \in DOMAIN items :
              LET n == SumOver(GroupIdx,
                               [g \in GroupIdx |-> Occurrences(Sel(g), p)])
              IN n = IF p <= Processed THEN 1 ELSE 0
        /\ \A g \in GroupIdx : Range(Sel(g)) \subseteq DOMAIN items

\* a finished split of more items than groups, and one of fewer
C1_Witness ==
    /\ pc = "returned"
    /\ splits = 2
    /\ Len(items) = 3
    /\ \A g \in GroupIdx : groups[g].selected # <<>>

(* C2.  deselected[i] is the input without the items of selected[i], in    *)
(* input order, and selected[i] is in input order; a group that got no     *)
(* item has the whole input deselected.                                    *)
C2_Deselected ==
    Started =>
        \A g \in GroupIdx :
            /\ Ascending(Sel(g))
            /\ Ascending(Desel(g))
            /\ Range(Desel(g)) = (1..Processed) \ Range(Sel(g))
            /\ (pc = "returned" /\ Sel(g) = <<>>) =>
                   Desel(g) = [p \in 1..Len(items) |-> p]

C2_Witness ==
    /\ pc = "returned"
    /\ Len(items) = 3
    /\ \E g, h \in GroupIdx :
          /\ groups[g].selected = <<>>
          /\ Len(groups[h].selected) = 2
          /\ Len(groups[h].deselected) = 1

C4_TieBreak ==
    Started =>
        /\ Processed >= 1 => GroupOf(1) = 0
        /\ \A k \in 1..Processed :
              Cardinality(MinGroups(k)) >= 2 =>
                  /\ GroupOf(k) \in MinGroups(k)
                  /\ \A h \in MinGroups(k) : GroupOf(k) <= h

\* a tie between two groups that both hold items
C4_Witness ==
    /\ Started
    /\ Processed = 3
    /\ splits >= 2
    /\ Cardinality(MinGroups(3)) >= 2
    /\ RLess(Zero, TotalBefore(GroupOf(3), 3))

(* C5, as stated: the example input yields a group of total 7 holding      *)
(* (a, d) and a group of total 8 holding (b, c, e).                        *)
ExampleCall ==
    /\ pc = "returned"
    /\ splits = 2
    /\ items = ExampleItems
    /\ cached_durations = ExampleDurations
C5_AsStated ==
    ExampleCall =>
        \E g, h \in GroupIdx :
            /\ groups[g].selected = <<1, 4>> /\ groups[g].duration = Rat(7, 1)
            /\ groups[h].selected = <<2, 3, 5>> /\ groups[h].duration = Rat(8, 1)

(* C5, amended: after a, b, c, d both groups stand at 7, so e goes to      *)
(* group 0: group 0 holds (a, d, e) with total 8, group 1 (b, c) with 7.   *)
C5_Example ==
    ExampleCall =>
        /\ groups[0] = test_group(<<1, 4, 5>>, <<2, 3>>, Rat(8, 1))
        /\ groups[1] = test_group(<<2, 3>>, <<1, 4, 5>>, Rat(7, 1))

C5_Witness == ExampleCall /\ groups[0].duration = Rat(8, 1)

(* C6.  The duration used for an item is its own entry of the mapping when *)
(* it has one, else 1 when no key of the mapping names an input item, else *)
(* the mean of the entries whose key names an input item.                  *)
C6_EffectiveDuration ==
    (Started /\ Processed >= 1) =>
        /\ item_duration = Effective(Processed)
        /\ avg_duration_per_test = Fallback

\* an item without an entry, while the mapping holds an entry of an input
\* item and an entry of another item with another value
C6_Witness ==
    /\ Started
    /\ Processed >= 1
    /\ items[Processed] \notin DOMAIN cached_durations
    /\ \E k \in Overlap : \E z \in Stale :
          cached_durations[k] # cached_durations[z]
    /\ item_duration = Fallback

(* C7.  The duration of a group is the sum of the effective durations of   *)
(* its selected items, 0 for a group without items; during the loop the    *)
(* heap holds for each group one entry, (its current sum, its index).      *)
C7_GroupDuration ==
    Started =>
        /\ \A g \in GroupIdx :
              /\ Dur(g) = EffectiveSum(Range(Sel(g)))
              /\ Sel(g) = <<>> => Dur(g) = Zero
        /\ Len(heap) = splits
        /\ \A g \in GroupIdx :
              \E i \in DOMAIN heap : heap[i] = <<EffectiveSum(Range(Sel(g))), g>>

C7_Witness ==
    /\ pc = "returned"
    /\ \E g, h \in GroupIdx :
          /\ Len(groups[g].selected) = 2
          /\ RLeq(Rat(2, 1), groups[g].duration)
          /\ groups[h].selected = <<>>
          /\ groups[h].duration = Zero


----------------------------------------------------------------------------
(* C9, as stated: validation rejects every invalid combination of --group  *)
(* and --splits with a pytest.UsageError before anything is scheduled or   *)
(* registered, and raises nothing exactly when both are absent or both     *)
(* present with 1 <= group <= splits.                                      *)
OptionsValid ==
    \/ opt_group = None /\ opt_splits = None
    \/ /\ opt_group # None /\ opt_splits # None
       /\ 1 <= opt_group[1] /\ opt_group[1] <= opt_splits[1]
ValidationRaised == raised # None /\ raised[1] # "JSONDecodeError"
C9_AsStated ==
    pc # "cmdline_main" =>
        IF OptionsValid THEN ~ ValidationRaised
        ELSE /\ raised # None /\ raised[1] = "UsageError"
             /\ pc = "exit" /\ ~ scheduled /\ registered = {}

\* the claim fails for --group 0 without --splits only
C9_ExceptGroupZeroAlone ==
    (opt_group = Some(0) /\ opt_splits = None) \/ C9_AsStated

(* C10.  The total recorded for an item is the sum of its test reports     *)
(* with duration >= 0 that are not a setup or teardown report of more than *)
(* 600 s; an item without such a report gets no total.                     *)
Counted(r) ==
    /\ r.test_report
    /\ RLeq(Zero, r.duration)
    /\ ~ (r.when \in {"setup", "teardown"} /\ RLess(Rat(600, 1), r.duration))
CountedOf(id) == {i \in DOMAIN stats : Counted(stats[i]) /\ stats[i].nodeid = id}
Recorded ==
    pc = "exit" /\ "pytestsplitcacheplugin" \in registered /\ raised = None
C10_RecorderTotals ==
    Recorded =>
        /\ DOMAIN test_durations = {id \in Ids : CountedOf(id) # {}}
        /\ \A id \in DOMAIN test_durations :
              test_durations[id] =
                  Total(CountedOf(id), [i \in DOMAIN stats |-> stats[i].duration])

\* a teardown of exactly 600 s counted, a report of -0.01 s left out
C10_Witness ==
    /\ Recorded
    /\ \E i, j \in DOMAIN stats :
          /\ stats[i] = Report(TRUE, "a", "teardown", Rat(600, 1))
          /\ stats[j] = Report(TRUE, "a", "call", Rat(0 - 1, 100))
    /\ test_durations = [id \in {"a"} |-> Rat(600, 1)]


----------------------------------------------------------------------------
(* What the properties of the durations file are stated in.                *)

\* the names a durations file or a run can mention
Names == Ids \cup {"z"}

\* the mapping a file holds: what is stored for each name in it
StoredIn(file) ==
    IF file.kind \in {"object", "array"} THEN FromPairs(file.pairs) ELSE <<>>
\* the value stored for id, None when there is none
StoredValue(file, id) ==
    IF id \in DOMAIN StoredIn(file) THEN Some(StoredIn(file)[id]) ELSE None

\* the total of this run for id, by C10
RunTotal(id) == Total(CountedOf(id), [i \in DOMAIN stats |-> stats[i].duration])
Measured(id) == CountedOf(id) # {}

\* the step in which the recorder saves
Saving == pc = "sessionfinish" /\ pc' = "exit"

(* C11.  The recorder stores for every item measured in the run exactly    *)
(* the run's total, whatever was stored before; no other step changes what *)
(* is stored for an item.  So over any sequence of runs the stored value   *)
(* of an item is the total of the latest run that measured it.             *)
C11_Overwrite ==
    [][\A id \in Names :
          IF Saving /\ Measured(id)
          THEN StoredValue(durations_file', id) = Some(RunTotal(id))
          ELSE StoredValue(durations_file', id) = StoredValue(durations_file, id)
      ]_vars

\* after at least two runs: b keeps the total 3 of an earlier run, the
\* total 9 of this run has replaced what was stored for a
C11_Witness ==
    /\ Recorded
    /\ DOMAIN test_durations = {"a"}
    /\ test_durations["a"] = Rat(9, 1)
    /\ StoredValue(durations_file, "a") = Some(Rat(9, 1))
    /\ StoredValue(durations_file, "b") = Some(Rat(3, 1))


\* the durations file has been loaded by every plugin the options ask for
Loaded == pc # "configure" /\ raised = None /\ registered # {}

\* the mappings held by the registered plugins
LoadedMappings ==
    (IF "pytestsplitplugin" \in registered THEN {cached_durations} ELSE {})
    \cup (IF "pytestsplitcacheplugin" \in registered
          THEN {recorder_durations} ELSE {})

\* the position of the last pair of a name in a list of pairs
LastPair(pairs, id) ==
    CHOOSE i \in DOMAIN pairs :
        /\ pairs[i][1] = id
        /\ \A j \in DOMAIN pairs : pairs[j][1] = id => j <= i

\* the mapping a list of pairs stands for: each name with its last value
LastWins(pairs) ==
    [id \in {pairs[i][1] : i \in DOMAIN pairs} |-> pairs[LastPair(pairs, id)][2]]

\* C12: a durations file in the legacy form, a list of [name, duration]
\* pairs, loads as the mapping of each name to the value of its last pair,
\* which is also what the object file holding that mapping loads as.
C12_LegacyFormat ==
    (Loaded /\ durations_file.kind = "array")
        => \A m \in LoadedMappings :
              /\ m = LastWins(durations_file.pairs)
              /\ m = BaseInit(json_dump(LastWins(durations_file.pairs)))

\* a legacy file naming "a" twice with different values has been loaded
C12_Witness ==
    /\ Loaded
    /\ durations_file = FileArray(<<<<"a", Rat(1, 1)>>, <<"a", Rat(2, 1)>>>>)
    /\ "pytestsplitplugin" \in registered
    /\ cached_durations = [id \in {"a"} |-> Rat(2, 1)]

\* the options ask for a plugin, whose constructor loads the durations file
WantsPlugin == (Truthy(opt_splits) /\ Truthy(opt_group)) \/ store_durations

\* C13: while the durations file holds what does not parse as JSON, the
\* process neither schedules nor records nor holds any mapping, a process
\* whose options ask for a plugin ends with the error of the parser when the
\* plugin is constructed, and no step changes the file.
C13_ParseFailure ==
    /\ [](durations_file.kind = "garbage"
            => /\ ~scheduled
               /\ registered = {}
               /\ cached_durations = <<>> /\ recorder_durations = <<>>
               /\ test_durations = <<>>
               /\ pc # "sessionfinish"
               /\ \A i \in DOMAIN io_log : io_log[i] # "write"
               /\ (WantsPlugin /\ pc \notin {"cmdline_main", "configure"})
                    => (pc = "exit" /\ raised # None)
               /\ (WantsPlugin /\ io_log # <<>>)
                    => raised = <<"JSONDecodeError", "">>)
    /\ [][durations_file.kind = "garbage"
            => durations_file' = durations_file]_vars

\* a process asked to split and to store has failed on reading the file
C13_Witness ==
    /\ durations_file = FileGarbage
    /\ Truthy(opt_splits) /\ Truthy(opt_group) /\ store_durations
    /\ pc = "exit"
    /\ raised = <<"JSONDecodeError", "">>
    /\ io_log = <<"read">>

\* C14: when the durations file does not exist, the plugins hold the empty
\* mapping and nothing is raised; split_tests then gives every item the
\* duration 1 and puts the item at 0-based position p into group
\* p mod splits, so that the sizes of two groups differ by at most one.
C14_MissingFile ==
    (durations_file.kind = "missing" /\ pc # "configure")
        => /\ raised = None
           /\ \A m \in LoadedMappings : m = <<>>
           /\ Started
                => /\ avg_duration_per_test = Rat(1, 1)
                   /\ (Processed >= 1 /\ pc = "loop")
                        => item_duration = Rat(1, 1)
                   /\ \A p \in 1..Processed :
                         p \in Range(Sel((p - 1) % splits))
                   /\ \A g \in GroupIdx : Dur(g) = Rat(Len(Sel(g)), 1)
                   /\ \A g, h \in GroupIdx : Len(Sel(g)) - Len(Sel(h)) <= 1

\* without a file, three items have been split into two groups
C14_Witness ==
    /\ durations_file = FileMissing
    /\ pc = "returned"
    /\ Len(items) = 3 /\ splits = 2
    /\ groups[0].selected = <<1, 3>> /\ groups[0].duration = Rat(2, 1)
    /\ groups[1].selected = <<2>> /\ groups[1].duration = Rat(1, 1)

Reads == {i \in DOMAIN io_log : io_log[i] = "read"}
Writes == {i \in DOMAIN io_log : io_log[i] = "write"}

\* C15: in one process the durations file is read at most once and written
\* at most once, and every read comes before the write.
C15_AsStated ==
    /\ Cardinality(Reads) <= 1
    /\ Cardinality(Writes) <= 1
    /\ \A r \in Reads, w \in Writes : r < w

\* what holds of the reads: one for each plugin constructed
C15_ReadPerPlugin ==
    /\ Cardinality(Reads) <= 2
    /\ (raised = None /\ pc \notin {"cmdline_main", "configure"})
         => Cardinality(Reads) = Cardinality(registered)
    /\ Cardinality(Writes) <= 1
    /\ \A r \in Reads, w \in Writes : r < w

\* the step in which the current process loads the file for its recorder
Loading ==
    /\ current' = current
    /\ pc = "configure" /\ pc' = "collection"
    /\ "pytestsplitcacheplugin" \in registered'

\* the step in which the current process saves
SavingNow == current' = current /\ Saving

\* the mapping m with the totals of this run written over it
Overwritten(m) ==
    [id \in DOMAIN m \cup {x \in Names : Measured(x)} |->
        IF Measured(id) THEN RunTotal(id) ELSE m[id]]

\* C16: with several processes on one durations file, a recording process
\* holds from its load on the content the file had at that moment, whatever
\* the other processes do; when it saves, the file becomes that snapshot
\* with the totals of its own run written over it, whatever the file held
\* at that moment; no other step changes the file, and a process without
\* the recording never writes.  So the file ends as the last writer
\* computed it, without what was saved after that writer loaded.
C16_LastWriterWins ==
    [][/\ Loading => recorder_durations' = StoredIn(durations_file)
       /\ (current' = current /\ ~Loading /\ ~SavingNow)
            => recorder_durations' = recorder_durations
       /\ current' # current
            => /\ suspended'[current].recorder_durations = recorder_durations
               /\ recorder_durations' = suspended[current'].recorder_durations
               /\ \A r \in DOMAIN suspended \cap DOMAIN suspended' :
                     suspended'[r] = suspended[r]
       /\ SavingNow
            => StoredIn(durations_file') = Overwritten(recorder_durations)
       /\ durations_file' # durations_file => (SavingNow /\ store_durations)
      ]_vars

\* both processes loaded the missing file; p measured "a" and saved, then q,
\* which measured "b", saved: the file holds "b" alone
C16_Witness ==
    /\ current = "q" /\ pc = "exit" /\ io_log = <<"read", "read", "write">>
    /\ DOMAIN test_durations = {"b"}
    /\ "p" \in DOMAIN suspended
    /\ suspended["p"].pc = "exit"
    /\ suspended["p"].io_log = <<"read", "read", "write">>
    /\ DOMAIN suspended["p"].test_durations = {"a"}
    /\ suspended["p"].recorder_durations = suspended["p"].test_durations
    /\ DOMAIN StoredIn(durations_file) = {"b"}

\* C17: the item assigned at each step of split_tests is one of largest
\* runtime among the items not yet assigned at that step.
C17_AsStated ==
    Started
        => \A k \in 1..Processed :
              \A j \in DOMAIN items :
                  j > k => RLeq(Effective(j), Effective(k))

\* the groups of the first n items, by the rule alone: each item in turn to
\* the group of least total so far, the lowest index among equals
RECURSIVE Assignment(_)
Assignment(n) ==
    IF n = 0 THEN <<>>
    ELSE LET prev == Assignment(n - 1)
             tot(g) == EffectiveSum({p \in 1..(n - 1) : prev[p] = g})
             least == {g \in GroupIdx :
                         \A h \in GroupIdx : RLeq(tot(g), tot(h))}
         IN Append(prev, CHOOSE g \in least : \A h \in least : g <= h)

\* C18: the items a process runs are those of one class of an assignment
\* of the collected items to the groups 0..splits-1 that depends on the
\* collected items, the durations file and the number of groups but not on
\* the group index, namely the class of group - 1; it reports the others
\* as deselected.  So the processes with the group indexes 1..splits run
\* every collected item in exactly one of them.
C18_Coverage ==
    (pc = "runtest" /\ scheduled)
        => /\ items = collected
           /\ splits = opt_splits[1]
           /\ cached_durations = BaseInit(durations_file)
           /\ LET a == Assignment(Len(collected))
              IN /\ \A p \in DOMAIN collected : a[p] \in 0..(splits - 1)
                 /\ Ascending(run_items)
                 /\ Range(run_items)
                      = {p \in DOMAIN collected : a[p] = opt_group[1] - 1}
                 /\ Ascending(deselected_items)
                 /\ Range(deselected_items)
                      = DOMAIN collected \ Range(run_items)

\* the process of group 2 of 2 runs b and c and deselects a
C18_Witness ==
    /\ pc = "runtest" /\ scheduled
    /\ opt_group = Some(2) /\ opt_splits = Some(2)
    /\ collected = <<"a", "b", "c">>
    /\ durations_file = FileObject(<<<<"a", Rat(2, 1)>>, <<"b", Rat(1, 1)>>>>)
    /\ run_items = <<2, 3>>
    /\ deselected_items = <<1>>

\* C19: from its construction to the save, the recorder holds the mapping
\* the file holds, whatever the process schedules meanwhile; the save
\* stores an entry for exactly the names loaded and the names measured in
\* this run, and for a loaded name not measured, the loaded value.
C19_Frame ==
    /\ [](("pytestsplitcacheplugin" \in registered /\ pc # "exit")
            => recorder_durations = BaseInit(durations_file))
    /\ [][Saving
            => /\ DOMAIN StoredIn(durations_file')
                    = DOMAIN recorder_durations
                      \cup {id \in Names : Measured(id)}
               /\ \A id \in DOMAIN recorder_durations :
                     ~Measured(id)
                        => StoredIn(durations_file')[id]
                             = recorder_durations[id]
      ]_vars

\* a process has scheduled, run a and b and saved: the entry of z, not
\* collected, is as loaded, and b, whose reports were all dropped, has none
C19_Witness ==
    /\ pc = "exit" /\ scheduled
    /\ run_items = <<1, 2>>
    /\ io_log = <<"read", "read", "write">>
    /\ DOMAIN test_durations = {"a"}
    /\ StoredIn(durations_file) = [id \in {"a", "z"} |->
                                      IF id = "a" THEN Rat(3, 1) ELSE Rat(1, 1)]

\* the largest effective duration among the items at the positions in P,
\* 0 when there is none
MaxEffective(P) ==
    IF P = {} THEN Zero
    ELSE Effective(CHOOSE p \in P : \A q \in P : RLeq(Effective(q), Effective(p)))

\* C20: when no effective duration is negative, after every step of the
\* loop the running totals of two groups differ by at most the largest
\* effective duration among the items assigned so far.
C20_Balance ==
    (Started /\ \A p \in DOMAIN items : RLeq(Zero, Effective(p)))
        => \A g, h \in GroupIdx :
              RLeq(Dur(g), RAdd(Dur(h), MaxEffective(1..Processed)))

\* three groups hold the totals 2, 0, 0 after three items, the largest of
\* duration 2: the difference reaches the bound
C20_Witness ==
    /\ pc = "returned" /\ splits = 3 /\ Len(items) = 3
    /\ groups[0].duration = Rat(2, 1)
    /\ groups[1].duration = Zero
    /\ groups[2].duration = Zero
    /\ MaxEffective(1..Processed) = Rat(2, 1)
=============================================================================
